---- MODULE Spec2Model ----
(***************************************************************************)
(* Model of the RandintGenerator sensor (src/src/models/sensor.py).        *)
(*                                                                         *)
(* Representation.                                                         *)
(*  - A number that arrives from outside (a protobuf number_value, a       *)
(*    Python int/float of a command mapping) is a double.  It is written   *)
(*    here in halves: the integer h stands for the number h/2, so 3 is     *)
(*    1.5 and 200 is 100.  int(h) is Python's int(): truncation toward 0.  *)
(*    Numbers stored in the generator (low, high, num_readings, seed) are  *)
(*    the results of int() and are plain integers.                         *)
(*  - An attribute bag and a command mapping are functions whose domain    *)
(*    is the set of keys present.                                          *)
(*  - Python's None is the empty tuple, a present value x is <<x>>.        *)
(*  - A call's outcome is [status, value]: status "ok" with the returned   *)
(*    value, or the name of the exception raised.                          *)
(*  - np.random's global generator is [src, pos]: how it was last          *)
(*    initialised and how many values were drawn since.                    *)
(*  - Each variable is indexed by the run (an independent process with its *)
(*    own generator instance and its own np.random state).                 *)
(***************************************************************************)
EXTENDS Integers, Sequences, FiniteSets, TLC

VARIABLES self, rng, last, reseeded, since

vars == <<self, rng, last, reseeded, since>>

Runs == {1, 2}

(* Bounds of the model *)
\* No call draws past the MaxPos-th value of a sequence.
MaxPos == 10
\* The get_readings outcomes kept after a reseed.
MaxCalls == 2

(* Program constants *)
DefaultLow == 0
DefaultHigh == 100
DefaultNumReadings == 1
DefaultBatchSize == 10

None == <<>>
Some(x) == <<x>>

Ok(v) == [status |-> "ok", value |-> v]
Raise(kind, msg) == [status |-> kind, value |-> <<msg>>]

Min(a, b) == IF a <= b THEN a ELSE b

\* A whole number n as a double (in halves).
Num(n) == 2 * n

\* Python int(x) of a double x (in halves): truncation toward zero.
int(x) == IF x >= 0 THEN x \div 2 ELSE -((-x) \div 2)

---------------------------------------------------------------------------
(* __init__ *)

InitSelf ==
    [low |-> DefaultLow, high |-> DefaultHigh, num_readings |-> DefaultNumReadings,
     reading_names |-> <<"value">>, dtype |-> "int32", seed |-> None]

---------------------------------------------------------------------------
(* validate_config *)

valid_dtypes ==
    {"int8", "int16", "int32", "int64", "uint8", "uint16", "uint32", "uint64"}

\* validate_config with the bounds compared by > where the code has >=.
validate_config_strict_bounds(bag) ==
    IF /\ "num_readings" \in DOMAIN bag
       /\ "reading_names" \in DOMAIN bag
       /\ Len(bag.reading_names) # int(bag.num_readings)
    THEN Raise("ValueError", "Number of reading_names must match num_readings")
    ELSE IF /\ "low" \in DOMAIN bag
            /\ "high" \in DOMAIN bag
            /\ int(bag.low) > int(bag.high)
    THEN Raise("ValueError", "low must be less than high")
    ELSE IF "dtype" \in DOMAIN bag /\ bag.dtype \notin valid_dtypes
    THEN Raise("ValueError", "dtype must be one of valid_dtypes")
    ELSE Ok(<<<<>>, <<>>>>)

validate_config(bag) ==
    IF /\ "num_readings" \in DOMAIN bag
       /\ "reading_names" \in DOMAIN bag
       /\ Len(bag.reading_names) # int(bag.num_readings)
    THEN Raise("ValueError", "Number of reading_names must match num_readings")
    ELSE IF /\ "low" \in DOMAIN bag
            /\ "high" \in DOMAIN bag
            /\ int(bag.low) >= int(bag.high)
    THEN Raise("ValueError", "low must be less than high")
    ELSE IF "dtype" \in DOMAIN bag /\ bag.dtype \notin valid_dtypes
    THEN Raise("ValueError", "dtype must be one of valid_dtypes")
    ELSE Ok(<<<<>>, <<>>>>)

---------------------------------------------------------------------------
(* numpy's global random source, as the module uses it *)

\* np.iinfo(dtype).min
iinfo_min(dtype) ==
    CASE dtype = "int8" -> -128
      [] dtype = "int16" -> -32768
      [] dtype \in {"int32", "int64"} -> -2147483647 - 1
      [] OTHER -> 0

\* x <= np.iinfo(dtype).max + 1.  Every integer of the model is below 2^31, so
\* the test is true for the types whose maximum is 2^31 - 1 or more.
below_iinfo_max(dtype, x) ==
    CASE dtype = "int8" -> x <= 128
      [] dtype = "uint8" -> x <= 256
      [] dtype = "int16" -> x <= 32768
      [] dtype = "uint16" -> x <= 65536
      [] OTHER -> TRUE

\* The value the generator initialised as src yields as its pos-th raw output.
RawStream(src, pos) ==
    LET key == IF src[1] = "seed" THEN 2 * src[2] + 1 ELSE 2 * src[2]
    IN  (key * 37 + pos * 11 + pos * pos * 5 + key * pos * 3) % 211

\* np.random.seed(seed): the seed must be between 0 and 2**32 - 1 (the upper
\* limit is above every integer of the model).
np_random_seed(g, seed) ==
    IF seed < 0
    THEN [status |-> "ValueError", rng |-> g]
    ELSE [status |-> "ok", rng |-> [src |-> <<"seed", seed>>, pos |-> 0]]

Product(size) ==
    IF Len(size) = 0 THEN 1
    ELSE IF Len(size) = 1 THEN size[1]
    ELSE size[1] * size[2]

\* np.random.randint(low, high, size=size, dtype=dtype); size <<>> is size=None.
\* The values are returned flat, row after row.  An empty shape returns an empty
\* array before the bounds are looked at; the bounds are tested against the
\* dtype's limits and against each other before anything is drawn.
np_random_randint(g, low, high, size, dtype) ==
    IF Len(size) > 0 /\ Product(size) = 0
    THEN [status |-> "ok", values |-> <<>>, rng |-> g]
    ELSE IF low < iinfo_min(dtype) \/ ~below_iinfo_max(dtype, high)
    THEN [status |-> "ValueError", values |-> <<>>, rng |-> g]
    ELSE IF low >= high
    THEN [status |-> "ValueError", values |-> <<>>, rng |-> g]
    ELSE IF \E i \in 1..Len(size) : size[i] < 0
    THEN [status |-> "ValueError", values |-> <<>>, rng |-> g]
    ELSE [status |-> "ok",
          values |-> [i \in 1..Product(size) |->
                        low + (RawStream(g.src, g.pos + i - 1) % (high - low))],
          rng |-> [g EXCEPT !.pos = @ + Product(size)]]

\* {name: int(value) for name, value in zip(names, values)}
zip_dict(names, values) ==
    LET m == Min(Len(names), Len(values))
    IN  [k \in {names[i] : i \in 1..m} |->
            values[CHOOSE i \in 1..m :
                      names[i] = k /\ \A j \in 1..m : names[j] = k => j <= i]]

---------------------------------------------------------------------------
(* reconfigure *)

attr(bag, key, default) == IF key \in DOMAIN bag THEN bag[key] ELSE default

default_names(n) ==
    IF n = 1 THEN <<"value">> ELSE [i \in 1..n |-> "value_" \o ToString(i)]

\* reconfigure keeping the stored bounds when the bag omits them.
reconfigure_merging(s, g, bag) ==
    LET n == int(attr(bag, "num_readings", Num(DefaultNumReadings)))
        new == [low |-> IF "low" \in DOMAIN bag THEN int(bag.low) ELSE s.low,
                high |-> IF "high" \in DOMAIN bag THEN int(bag.high) ELSE s.high,
                num_readings |-> n,
                reading_names |-> IF "reading_names" \in DOMAIN bag
                                  THEN bag.reading_names
                                  ELSE default_names(n),
                dtype |-> attr(bag, "dtype", "int32"),
                seed |-> IF "seed" \in DOMAIN bag THEN Some(int(bag.seed)) ELSE None]
    IN  IF "seed" \in DOMAIN bag
        THEN LET sd == np_random_seed(g, int(bag.seed))
             IN  [status |-> sd.status, value |-> None, self |-> new, rng |-> sd.rng]
        ELSE [status |-> "ok", value |-> None, self |-> new, rng |-> g]

\* reconfigure seeding the random source with 0 when the bag omits seed.
reconfigure_seeding_always(s, g, bag) ==
    LET n == int(attr(bag, "num_readings", Num(DefaultNumReadings)))
        new == [low |-> int(attr(bag, "low", Num(DefaultLow))),
                high |-> int(attr(bag, "high", Num(DefaultHigh))),
                num_readings |-> n,
                reading_names |-> IF "reading_names" \in DOMAIN bag
                                  THEN bag.reading_names
                                  ELSE default_names(n),
                dtype |-> attr(bag, "dtype", "int32"),
                seed |-> IF "seed" \in DOMAIN bag THEN Some(int(bag.seed)) ELSE None]
        sd == np_random_seed(g, IF "seed" \in DOMAIN bag THEN int(bag.seed) ELSE 0)
    IN  [status |-> sd.status, value |-> None, self |-> new, rng |-> sd.rng]

reconfigure(s, g, bag) ==
    LET n == int(attr(bag, "num_readings", Num(DefaultNumReadings)))
        new == [low |-> int(attr(bag, "low", Num(DefaultLow))),
                high |-> int(attr(bag, "high", Num(DefaultHigh))),
                num_readings |-> n,
                reading_names |-> IF "reading_names" \in DOMAIN bag
                                  THEN bag.reading_names
                                  ELSE default_names(n),
                dtype |-> attr(bag, "dtype", "int32"),
                seed |-> IF "seed" \in DOMAIN bag THEN Some(int(bag.seed)) ELSE None]
    IN  IF "seed" \in DOMAIN bag
        THEN LET sd == np_random_seed(g, int(bag.seed))
             IN  [status |-> sd.status, value |-> None, self |-> new, rng |-> sd.rng]
        ELSE [status |-> "ok", value |-> None, self |-> new, rng |-> g]

---------------------------------------------------------------------------
(* get_readings *)

\* get_readings passing high + 1 to randint, as for a closed interval.
get_readings_high_inclusive(s, g) ==
    IF s.num_readings = 1
    THEN LET d == np_random_randint(g, s.low, s.high + 1, <<>>, s.dtype)
         IN  IF d.status # "ok"
             THEN [status |-> d.status, value |-> None, self |-> s, rng |-> d.rng]
             ELSE IF Len(s.reading_names) = 0
             THEN [status |-> "IndexError", value |-> None, self |-> s, rng |-> d.rng]
             ELSE [status |-> "ok",
                   value |-> (s.reading_names[1] :> d.values[1]),
                   self |-> s, rng |-> d.rng]
    ELSE LET d == np_random_randint(g, s.low, s.high + 1, <<s.num_readings>>, s.dtype)
         IN  IF d.status # "ok"
             THEN [status |-> d.status, value |-> None, self |-> s, rng |-> d.rng]
             ELSE [status |-> "ok",
                   value |-> zip_dict(s.reading_names, d.values),
                   self |-> s, rng |-> d.rng]

get_readings(s, g) ==
    IF s.num_readings = 1
    THEN LET d == np_random_randint(g, s.low, s.high, <<>>, s.dtype)
         IN  IF d.status # "ok"
             THEN [status |-> d.status, value |-> None, self |-> s, rng |-> d.rng]
             ELSE IF Len(s.reading_names) = 0
             THEN [status |-> "IndexError", value |-> None, self |-> s, rng |-> d.rng]
             ELSE [status |-> "ok",
                   value |-> (s.reading_names[1] :> d.values[1]),
                   self |-> s, rng |-> d.rng]
    ELSE LET d == np_random_randint(g, s.low, s.high, <<s.num_readings>>, s.dtype)
         IN  IF d.status # "ok"
             THEN [status |-> d.status, value |-> None, self |-> s, rng |-> d.rng]
             ELSE [status |-> "ok",
                   value |-> zip_dict(s.reading_names, d.values),
                   self |-> s, rng |-> d.rng]

---------------------------------------------------------------------------
(* do_command *)

\* Python values of a command mapping: <<type, value>>.
PyStr(x) == <<"str", x>>
PyNum(x) == <<"float", x>>

\* command.get(key): None when the key is missing.
get(command, key) == IF key \in DOMAIN command THEN Some(command[key]) ELSE None

\* Python truthiness of command.get("command").
truthy(x) ==
    /\ x # None
    /\ x[1][1] = "str" => x[1][2] # ""
    /\ x[1][1] = "float" => x[1][2] # 0

\* isinstance(x, (int, float))
is_number(x) == x[1] = "float"

\* batch_values[k] of the two-dimensional result, for rows of n values.
Row(values, n, k) == [i \in 1..n |-> values[(k - 1) * n + i]]

get_config(s, g) ==
    [status |-> "ok",
     value |-> [low |-> s.low, high |-> s.high, num_readings |-> s.num_readings,
                reading_names |-> s.reading_names, dtype |-> s.dtype,
                seed |-> s.seed],
     self |-> s, rng |-> g]

\* reseed storing the seed without calling np.random.seed.
reseed_storing_only(s, g, command) ==
    LET new_seed == get(command, "seed")
    IN  IF new_seed = None
        THEN [status |-> "ValueError", value |-> None, self |-> s, rng |-> g]
        ELSE IF ~is_number(new_seed[1])
        THEN [status |-> "ValueError", value |-> None, self |-> s, rng |-> g]
        ELSE LET stored == [s EXCEPT !.seed = Some(int(new_seed[1][2]))]
             IN  [status |-> "ok",
                  value |-> [status |-> "reseeded", seed |-> stored.seed],
                  self |-> stored, rng |-> g]

reseed(s, g, command) ==
    LET new_seed == get(command, "seed")
    IN  IF new_seed = None
        THEN [status |-> "ValueError", value |-> None, self |-> s, rng |-> g]
        ELSE IF ~is_number(new_seed[1])
        THEN [status |-> "ValueError", value |-> None, self |-> s, rng |-> g]
        ELSE LET stored == [s EXCEPT !.seed = Some(int(new_seed[1][2]))]
                 sd == np_random_seed(g, int(new_seed[1][2]))
             IN  IF sd.status # "ok"
                 THEN [status |-> sd.status, value |-> None,
                       self |-> stored, rng |-> sd.rng]
                 ELSE [status |-> "ok",
                       value |-> [status |-> "reseeded", seed |-> stored.seed],
                       self |-> stored, rng |-> sd.rng]

generate_batch(s, g, command) ==
    LET given == get(command, "size")
        batch_size == IF given = None THEN PyNum(Num(DefaultBatchSize)) ELSE given[1]
    IN  IF ~is_number(batch_size) \/ batch_size[2] <= 0
        THEN [status |-> "ValueError", value |-> None, self |-> s, rng |-> g]
        ELSE LET size == int(batch_size[2]) IN
             IF s.num_readings = 1
             THEN LET d == np_random_randint(g, s.low, s.high, <<size>>, s.dtype)
                  IN  IF d.status # "ok"
                      THEN [status |-> d.status, value |-> None, self |-> s, rng |-> d.rng]
                      ELSE IF Len(s.reading_names) = 0
                      THEN [status |-> "IndexError", value |-> None,
                            self |-> s, rng |-> d.rng]
                      ELSE [status |-> "ok",
                            value |-> [batch |-> d.values, batch_size |-> size,
                                       reading_name |-> s.reading_names[1]],
                            self |-> s, rng |-> d.rng]
             ELSE LET d == np_random_randint(g, s.low, s.high,
                                             <<size, s.num_readings>>, s.dtype)
                  IN  IF d.status # "ok"
                      THEN [status |-> d.status, value |-> None, self |-> s, rng |-> d.rng]
                      ELSE [status |-> "ok",
                            value |-> [batch |-> [k \in 1..size |->
                                                    zip_dict(s.reading_names,
                                                             Row(d.values, s.num_readings, k))],
                                       batch_size |-> size,
                                       reading_names |-> s.reading_names],
                            self |-> s, rng |-> d.rng]

\* do_command returning nothing for a command it does not know.
do_command_ignoring_unknown(s, g, command) ==
    LET cmd == get(command, "command")
    IN  IF ~truthy(cmd)
        THEN [status |-> "ValueError", value |-> None, self |-> s, rng |-> g]
        ELSE IF cmd[1] = PyStr("get_config") THEN get_config(s, g)
        ELSE IF cmd[1] = PyStr("reseed") THEN reseed(s, g, command)
        ELSE IF cmd[1] = PyStr("generate_batch") THEN generate_batch(s, g, command)
        ELSE [status |-> "ok", value |-> None, self |-> s, rng |-> g]

do_command(s, g, command) ==
    LET cmd == get(command, "command")
    IN  IF ~truthy(cmd)
        THEN [status |-> "ValueError", value |-> None, self |-> s, rng |-> g]
        ELSE IF cmd[1] = PyStr("get_config") THEN get_config(s, g)
        ELSE IF cmd[1] = PyStr("reseed") THEN reseed(s, g, command)
        ELSE IF cmd[1] = PyStr("generate_batch") THEN generate_batch(s, g, command)
        ELSE [status |-> "NotImplementedError", value |-> None, self |-> s, rng |-> g]

---------------------------------------------------------------------------
(* Inputs the host supplies *)

\* The ways a key can appear in a mapping: missing, or present with a value.
Opt(key, values) == {<<>>} \cup {key :> v : v \in values}

BagsOver(lows, highs, nums, names, dtypes, seeds) ==
    {l @@ h @@ n @@ nm @@ d @@ sd :
        l \in Opt("low", lows), h \in Opt("high", highs),
        n \in Opt("num_readings", nums), nm \in Opt("reading_names", names),
        d \in Opt("dtype", dtypes), sd \in Opt("seed", seeds)}

\* The attribute bags validate_config is tried on.
Bags ==
    BagsOver({Num(5), Num(10), Num(100)}, {Num(5), Num(5) + 1, Num(10)},
             {Num(0), Num(2), Num(2) + 1, Num(3)}, {<<>>, <<"a", "b">>},
             {"int8", "float32"}, {Num(1)})
    \cup {("dtype" :> d) : d \in valid_dtypes \cup {"Int32", "float64", ""}}

\* The host applies a configuration only after validate_config accepted it.
Accepted(bags) == {bag \in bags : validate_config(bag).status = "ok"}

\* The bags applied where the configuration is what is looked at.
ConfigBags ==
    Accepted(BagsOver({Num(198)}, {Num(200)}, {Num(2) + 1, Num(3)},
                      {<<>>, <<"a", "b">>}, {"int8"}, {Num(-1)}))

\* The bags applied where the commands are what is looked at.
CoreBags ==
    Accepted(BagsOver({Num(100)}, {}, {Num(0), Num(3)}, {<<"a", "b">>}, {},
                      {Num(1)}))

SeedParams == {PyStr("abc"), PyNum(Num(-1)), PyNum(Num(1))}
SizeParams ==
    {PyStr("many"), PyNum(Num(-1)), PyNum(Num(0)), PyNum(1), PyNum(Num(2)),
     PyNum(Num(2) + 1)}

\* Every command mapping with the parameters its handler reads, and with
\* parameters it does not read.
Commands ==
    {c @@ sd @@ sz :
        c \in Opt("command", {PyStr(""), PyStr("get_config"), PyStr("calibrate")}),
        sd \in Opt("seed", {PyNum(Num(1))}), sz \in Opt("size", {PyNum(Num(2))})}
    \cup {("command" :> PyStr("reseed")) @@ sd @@ sz :
            sd \in Opt("seed", SeedParams), sz \in Opt("size", {PyNum(Num(2))})}
    \cup {("command" :> PyStr("generate_batch")) @@ sd @@ sz :
            sd \in Opt("seed", {PyNum(Num(1))}), sz \in Opt("size", SizeParams)}

\* The commands issued where the configuration is what is looked at.
ConfigCommands ==
    {("command" :> PyStr("reseed")) @@ ("seed" :> PyNum(Num(2))),
     ("command" :> PyStr("generate_batch")) @@ ("size" :> PyNum(Num(2)))}

---------------------------------------------------------------------------
(* The state machine *)

Unseeded(e) == [src |-> <<"entropy", e>>, pos |-> 0]

NoCall == [op |-> "__init__", arg |-> None, status |-> "ok", value |-> None]

\* The instance is served once new() returned it.
Serving(r) ==
    ~(last[r].op = "__init__" \/ (last[r].op = "new" /\ last[r].status # "ok"))

\* No instance is built yet; each process's np.random holds what that process's
\* own entropy gave it.
Init ==
    /\ self = [r \in Runs |-> InitSelf]
    /\ rng = [r \in Runs |-> Unseeded(r)]
    /\ last = [r \in Runs |-> NoCall]
    /\ reseeded = [r \in Runs |-> None]
    /\ since = [r \in Runs |-> <<>>]

\* validate_config is a classmethod: it reads and writes no state.
ValidateConfig(r, bag) ==
    /\ \E res \in {validate_config(bag)} :
          last' = [last EXCEPT ![r] = [op |-> "validate_config", arg |-> bag,
                                       status |-> res.status, value |-> res.value]]
    /\ UNCHANGED <<self, rng, reseeded, since>>

\* new(): __init__ and then reconfigure; the instance is returned only when
\* reconfigure did not raise.
New(r, bag) ==
    /\ ~Serving(r)
    /\ validate_config(bag).status = "ok"
    /\ \E res \in {reconfigure(InitSelf, rng[r], bag)} :
          /\ self' = [self EXCEPT ![r] = IF res.status = "ok" THEN res.self ELSE InitSelf]
          /\ rng' = [rng EXCEPT ![r] = res.rng]
          /\ last' = [last EXCEPT ![r] = [op |-> "new", arg |-> bag,
                                          status |-> res.status, value |-> res.value]]
    /\ UNCHANGED <<reseeded, since>>

Reconfigure(r, bag) ==
    /\ Serving(r)
    /\ validate_config(bag).status = "ok"
    /\ \E res \in {reconfigure(self[r], rng[r], bag)} :
          /\ self' = [self EXCEPT ![r] = res.self]
          /\ rng' = [rng EXCEPT ![r] = res.rng]
          /\ last' = [last EXCEPT ![r] = [op |-> "reconfigure", arg |-> bag,
                                          status |-> res.status, value |-> res.value]]
    /\ reseeded' = [reseeded EXCEPT ![r] = None]
    /\ since' = [since EXCEPT ![r] = <<>>]

\* since[r] keeps the outcomes of the first MaxCalls get_readings calls made
\* after the last successful reseed command, while reseeded[r] holds its seed.
GetReadings(r) ==
    /\ Serving(r)
    /\ \E res \in {get_readings(self[r], rng[r])} :
          /\ res.rng.pos <= MaxPos
          /\ self' = [self EXCEPT ![r] = res.self]
          /\ rng' = [rng EXCEPT ![r] = res.rng]
          /\ last' = [last EXCEPT ![r] = [op |-> "get_readings", arg |-> None,
                                          status |-> res.status, value |-> res.value]]
          /\ since' = [since EXCEPT ![r] =
                         IF reseeded[r] # None /\ Len(@) < MaxCalls
                         THEN Append(@, [status |-> res.status, value |-> res.value])
                         ELSE @]
    /\ UNCHANGED reseeded

DoCommand(r, command) ==
    /\ Serving(r)
    /\ \E res \in {do_command(self[r], rng[r], command)} :
          LET is_reseed == /\ res.status = "ok"
                           /\ get(command, "command") = Some(PyStr("reseed"))
          IN  /\ res.rng.pos <= MaxPos
              /\ self' = [self EXCEPT ![r] = res.self]
              /\ rng' = [rng EXCEPT ![r] = res.rng]
              /\ last' = [last EXCEPT ![r] = [op |-> "do_command", arg |-> command,
                                              status |-> res.status, value |-> res.value]]
              /\ reseeded' = [reseeded EXCEPT ![r] =
                                IF is_reseed THEN res.self.seed
                                ELSE IF res.rng # rng[r] THEN None ELSE @]
              /\ since' = [since EXCEPT ![r] =
                             IF is_reseed \/ res.rng # rng[r] THEN <<>> ELSE @]

\* One generator serving every command.
Next ==
    \/ \E bag \in CoreBags : New(1, bag)
    \/ \E bag \in CoreBags : Reconfigure(1, bag)
    \/ GetReadings(1)
    \/ \E command \in Commands : DoCommand(1, command)

Spec == Init /\ [][Next]_vars

\* One generator under every accepted configuration.
NextConfig ==
    \/ \E bag \in ConfigBags : New(1, bag)
    \/ \E bag \in ConfigBags : Reconfigure(1, bag)
    \/ GetReadings(1)
    \/ \E command \in ConfigCommands : DoCommand(1, command)

SpecConfig == Init /\ [][NextConfig]_vars

\* validate_config alone, on every bag.
NextValidate == \E bag \in Bags : ValidateConfig(1, bag)

SpecValidate == Init /\ [][NextValidate]_vars

\* The bags and commands of two runs that are compared.
TwoBags == Accepted(BagsOver({}, {Num(200)}, {Num(3)}, {}, {}, {}))

TwoCommands ==
    {("command" :> PyStr("reseed")) @@ ("seed" :> PyNum(Num(s))) : s \in {1, 2}}

\* Two independent processes, each with its own generator and np.random.
NextTwo ==
    \E r \in Runs :
        \/ \E bag \in TwoBags : New(r, bag)
        \/ GetReadings(r)
        \/ \E command \in TwoCommands : DoCommand(r, command)

SpecTwo == Init /\ [][NextTwo]_vars

---------------------------------------------------------------------------
(* The claims *)

IsCommand(r, name) ==
    /\ last[r].op = "do_command"
    /\ get(last[r].arg, "command") = Some(PyStr(name))

\* C1: every get_readings call that returns a result returns, for each channel,
\* an integer value with low <= value < high for the stored low and high.
C1_ReadingsWithinBounds ==
    \A r \in Runs :
        (last[r].op = "get_readings" /\ last[r].status = "ok") =>
            \A name \in DOMAIN last[r].value :
                /\ last[r].value[name] \in Int
                /\ self[r].low <= last[r].value[name]
                /\ last[r].value[name] < self[r].high

\* C1's case: a reading of several channels returned under configured,
\* non-default bounds.
C1_Witness ==
    /\ last[1].op = "get_readings" /\ last[1].status = "ok"
    /\ self[1].low = 198 /\ self[1].high = 200
    /\ Cardinality(DOMAIN last[1].value) = 2

\* C2: the stored bounds of a served generator satisfy low < high.
C2_LowBelowHigh ==
    \A r \in Runs : Serving(r) => self[r].low < self[r].high

\* C3: num_readings of a served generator is positive and reading_names has
\* exactly num_readings names.
C3_NamesMatchCount ==
    \A r \in Runs :
        Serving(r) =>
            /\ self[r].num_readings > 0
            /\ Len(self[r].reading_names) = self[r].num_readings

\* The three reasons for which C4 says validate_config fails, read on the
\* numbers of the bag as they are supplied.
C4_ClaimedFailure(bag) ==
    \/ /\ "num_readings" \in DOMAIN bag /\ "reading_names" \in DOMAIN bag
       /\ Num(Len(bag.reading_names)) # bag.num_readings
    \/ /\ "low" \in DOMAIN bag /\ "high" \in DOMAIN bag
       /\ bag.low >= bag.high
    \/ "dtype" \in DOMAIN bag /\ bag.dtype \notin
          {"int8", "int16", "int32", "int64", "uint8", "uint16", "uint32", "uint64"}

\* The same reasons read on the numbers truncated toward zero, the integers
\* reconfigure would store.
C4_TruncatedFailure(bag) ==
    \/ /\ "num_readings" \in DOMAIN bag /\ "reading_names" \in DOMAIN bag
       /\ Len(bag.reading_names) # int(bag.num_readings)
    \/ /\ "low" \in DOMAIN bag /\ "high" \in DOMAIN bag
       /\ int(bag.low) >= int(bag.high)
    \/ "dtype" \in DOMAIN bag /\ bag.dtype \notin
          {"int8", "int16", "int32", "int64", "uint8", "uint16", "uint32", "uint64"}

\* C4 as stated: validate_config fails with a configuration error exactly when
\* the names differ in number from num_readings, or low >= high, or dtype is
\* none of the eight tags; otherwise it returns no dependencies.
C4_AsStated ==
    \A r \in Runs :
        last[r].op = "validate_config" =>
            /\ last[r].status = "ValueError" <=> C4_ClaimedFailure(last[r].arg)
            /\ last[r].status # "ValueError" =>
                  last[r].status = "ok" /\ last[r].value = <<<<>>, <<>>>>

\* C4 amended: validate_config fails exactly when one of the three reasons holds
\* of the numbers truncated toward zero; otherwise it returns no dependencies.
C4_ValidateFailsExactlyWhen ==
    \A r \in Runs :
        last[r].op = "validate_config" =>
            /\ last[r].status = "ValueError" <=> C4_TruncatedFailure(last[r].arg)
            /\ last[r].status # "ValueError" =>
                  last[r].status = "ok" /\ last[r].value = <<<<>>, <<>>>>

\* C4's case: low=10, high=5 was tried and rejected.
C4_Witness ==
    /\ last[1].op = "validate_config"
    /\ last[1].arg = [low |-> Num(10), high |-> Num(5)]
    /\ last[1].status = "ValueError"

\* C5: two runs that hold the identical configuration and reseeded with the same
\* seed obtain the same outcomes from the same number of get_readings calls.
C5_SameSeedSameSequence ==
    \A a, b \in Runs :
        (reseeded[a] # None /\ reseeded[a] = reseeded[b] /\ self[a] = self[b]) =>
            \A i \in 1..Min(Len(since[a]), Len(since[b])) : since[a][i] = since[b][i]

\* C5's case: both runs reseeded alike and then each drew MaxCalls readings of
\* several channels.
C5_Witness ==
    /\ reseeded[1] # None /\ reseeded[1] = reseeded[2] /\ self[1] = self[2]
    /\ Len(since[1]) = MaxCalls /\ Len(since[2]) = MaxCalls
    /\ since[1][1].status = "ok" /\ self[1].num_readings = 3

\* C6: generate_batch returns exactly size draws or rows and reports batch_size
\* equal to size (10 when size is omitted); it fails with a configuration error
\* when size <= 0 or size is not a number; no returned batch is empty.
C6_BatchSize ==
    \A r \in Runs :
        IsCommand(r, "generate_batch") =>
            LET size == get(last[r].arg, "size")
                ok == last[r].status = "ok"
            IN  /\ size = None =>
                      (ok => /\ Len(last[r].value.batch) = 10
                             /\ last[r].value.batch_size = 10)
                /\ (size # None /\ is_number(size[1]) /\ size[1][2] > 0) =>
                      (ok => /\ Num(Len(last[r].value.batch)) = size[1][2]
                             /\ Num(last[r].value.batch_size) = size[1][2])
                /\ (size # None /\ ~is_number(size[1])) => last[r].status = "ValueError"
                /\ (size # None /\ is_number(size[1]) /\ size[1][2] <= 0) =>
                      last[r].status = "ValueError"
                /\ ok => /\ Len(last[r].value.batch) > 0
                         /\ last[r].value.batch_size # 0

\* C7 as stated: do_command with any command name other than get_config, reseed
\* and generate_batch fails with the unsupported-command error and returns
\* nothing.
C7_AsStated ==
    \A r \in Runs :
        (/\ last[r].op = "do_command"
         /\ "command" \in DOMAIN last[r].arg
         /\ last[r].arg.command[2] \notin {"get_config", "reseed", "generate_batch"}) =>
            last[r].status = "NotImplementedError" /\ last[r].value = None

\* C7 amended: do_command with any non-empty command name other than get_config,
\* reseed and generate_batch fails with the unsupported-command error and
\* returns nothing; with the empty name it fails as with a missing command
\* field, with a configuration error.
C7_UnknownCommandFails ==
    \A r \in Runs :
        (/\ last[r].op = "do_command"
         /\ "command" \in DOMAIN last[r].arg
         /\ last[r].arg.command[2] \notin {"get_config", "reseed", "generate_batch"}) =>
            /\ last[r].value = None
            /\ last[r].status =
                  IF last[r].arg.command[2] = "" THEN "ValueError"
                  ELSE "NotImplementedError"

\* C7's case: an unknown command, sent with parameters to a generator whose
\* configuration is not the default one, failed as unsupported.
C7_Witness ==
    /\ last[1].op = "do_command"
    /\ last[1].arg = [command |-> PyStr("calibrate"), seed |-> PyNum(Num(1)),
                      size |-> PyNum(Num(2))]
    /\ last[1].status = "NotImplementedError"
    /\ self[1].num_readings = 3 /\ self[1].seed # None

\* C8: a reconfigure call leaves a configuration that is a function of its bag
\* alone: every omitted field has its default (low=0, high=100, num_readings=1,
\* dtype=int32, no seed), every supplied field its supplied value, and omitted
\* reading_names are ["value"] for one reading and value_1 .. value_N for N > 1.
C8_ReconfigureReplaces ==
    \A r \in Runs :
        (last[r].op = "reconfigure" \/ (last[r].op = "new" /\ last[r].status = "ok")) =>
            LET bag == last[r].arg
                n == self[r].num_readings
            IN  /\ self[r].low = IF "low" \in DOMAIN bag THEN int(bag.low) ELSE 0
                /\ self[r].high = IF "high" \in DOMAIN bag THEN int(bag.high) ELSE 100
                /\ n = IF "num_readings" \in DOMAIN bag THEN int(bag.num_readings) ELSE 1
                /\ self[r].dtype = IF "dtype" \in DOMAIN bag THEN bag.dtype ELSE "int32"
                /\ self[r].seed = IF "seed" \in DOMAIN bag THEN <<int(bag.seed)>> ELSE <<>>
                /\ "reading_names" \in DOMAIN bag => self[r].reading_names = bag.reading_names
                /\ ("reading_names" \notin DOMAIN bag /\ n = 1) =>
                      self[r].reading_names = <<"value">>
                /\ ("reading_names" \notin DOMAIN bag /\ n = 3) =>
                      self[r].reading_names = <<"value_1", "value_2", "value_3">>
                /\ ("reading_names" \notin DOMAIN bag /\ n > 1) =>
                      /\ Len(self[r].reading_names) = n
                      /\ \A i \in 1..n :
                            self[r].reading_names[i] = "value_" \o ToString(i)

\* C8's case: a generator was reconfigured with num_readings=3 alone.
C8_Witness ==
    /\ last[1].op = "reconfigure"
    /\ last[1].arg = [num_readings |-> Num(3)]
    /\ self[1].reading_names = <<"value_1", "value_2", "value_3">>
    /\ self[1].low = 0 /\ self[1].high = 100 /\ self[1].seed = None

\* The call that led to the state re-initialises the random source: a reseed
\* command that succeeded, or a configuration whose bag holds seed.
C9_Seeds(r) ==
    \/ IsCommand(r, "reseed") /\ last[r].status = "ok"
    \/ last[r].op \in {"new", "reconfigure"} /\ "seed" \in DOMAIN last[r].arg

\* C9: only a reseed command or a reconfigure whose bag holds seed re-initialises
\* the random source; every other call leaves it where it was or further along
\* the same sequence; a reconfigure without seed stores no seed, which
\* get_config then reports, and leaves the random source as it was.
C9_OnlySeedingReinitialises ==
    [][\A r \in Runs :
          /\ (~C9_Seeds(r))' =>
                /\ rng'[r].src = rng[r].src
                /\ rng'[r].pos >= rng[r].pos
          /\ (last'[r].op = "reconfigure" /\ "seed" \notin DOMAIN last'[r].arg) =>
                /\ self'[r].seed = None
                /\ rng'[r] = rng[r]
          /\ (IsCommand(r, "get_config"))' =>
                /\ last'[r].status = "ok"
                /\ last'[r].value.seed = self[r].seed
                /\ rng'[r] = rng[r]
      ]_vars

\* C9's case: a generator seeded earlier, some draws along, was reconfigured
\* without seed and its random source is still that seeded sequence.
C9_Witness ==
    /\ last[1].op = "reconfigure" /\ "seed" \notin DOMAIN last[1].arg
    /\ self[1].seed = None
    /\ rng[1].src[1] = "seed" /\ rng[1].pos > 0

\* C10: a do_command call that fails leaves the stored configuration and the
\* random source as they were; a get_config changes neither; a reseed changes
\* only the stored seed and the random source.
C10_FailedCommandChangesNothing ==
    [][\A r \in Runs :
          /\ (last'[r].op = "do_command" /\ last'[r].status # "ok") =>
                self'[r] = self[r] /\ rng'[r] = rng[r]
          /\ (IsCommand(r, "get_config"))' =>
                self'[r] = self[r] /\ rng'[r] = rng[r]
          /\ (IsCommand(r, "reseed") /\ last[r].status = "ok")' =>
                self'[r] = [self[r] EXCEPT !.seed = self'[r].seed]
      ]_vars

====
